---- MODULE Spec2Model ----
(***************************************************************************)
(* Identity / authentication core of govproposal-ai.                       *)
(*                                                                         *)
(* The store is PostgreSQL reached through one SQLAlchemy AsyncSession per *)
(* request (db/base.py get_db): a request's flushed statements stay in its *)
(* own transaction until get_db commits (handler returned) or rolls back   *)
(* (handler raised).  Tables below hold the COMMITTED rows; each request   *)
(* slot carries its loaded ORM objects and its flushed, uncommitted        *)
(* writes.  An UPDATE or DELETE holds the row until the transaction ends,  *)
(* and a statement on a row held by another request waits for it.          *)
(* Time is counted in 30-second steps (the TOTP interval).                 *)
(***************************************************************************)
EXTENDS Integers, FiniteSets, Sequences, TLC

VARIABLES
    now,          \* wall clock, in 30-second steps
    ticks,        \* number of clock advances so far (bounds the run)
    nextId,       \* source of fresh values (uuid4, secrets.token_hex, random_base32)
    lastId,       \* the last fresh value a run may draw (bounds the run)
    users,        \* committed table users:              id -> row
    sessions,     \* committed table user_sessions:      id -> row
    codes,        \* committed table mfa_recovery_codes: id -> row
    resets,       \* committed table password_reset_tokens: id -> row
    audit,        \* committed table audit_logs: the security events written
    req,          \* the request slots: handler position, loaded objects, pending writes
    issued,       \* tokens that were returned to a client
    rotations,    \* history: <<presented token, returned refresh token>> of every successful Refresh
    grants,       \* history: <<recovery code id, session id>> of every successful recovery login
    consecFails,  \* history: wrong-password Login responses since the last password-correct one
    answered,     \* history: <<kind, token, result>> of the MFA-login, recovery-login and reset-confirm responses
    calls,        \* calls of the pure functions (permissions, tokens, TOTP, recovery codes)
    members       \* committed table organization_members: <<organization id, user id>> -> row

vars == <<now, ticks, nextId, lastId, users, sessions, codes, resets, audit, req, issued,
          rotations, grants, consecFails, answered, calls, members>>

----------------------------------------------------------------------------
(* Bounds of the model *)

MaxIds == 5        \* fresh values a run from the empty store may draw
MaxNew == 2        \* fresh values a run from a populated store may draw
MaxTicks == 2      \* clock advances in a run
MaxCalls == 2      \* calls of a pure function that a run compares

(* Program constants *)

NULL == -1
MAX_FAILED_ATTEMPTS == 5
LOCKOUT_DURATION_MINUTES == 30
MFA_TOKEN_MINUTES == 5
ACCESS_TOKEN_MINUTES == 30
REFRESH_TOKEN_DAYS == 7
SESSION_DAYS == 7
RECOVERY_CODE_COUNT == 10
VALID_WINDOW == 1
RESET_TOKEN_HOURS == 1
StepsPerMinute == 2    \* the clock counts TOTP periods of 30 seconds

Minutes(m) == m * StepsPerMinute
Days(d) == d * 24 * 60 * StepsPerMinute

Reqs == {1, 2}
TryCodes == {1, 2}        \* the codes of a batch of ten that clients type
MaxFails == MAX_FAILED_ATTEMPTS + 1
Emails == {"alice@x.com"}
Passwords == {"Secret123!", "Wrong456!"}

EmptyFn == [x \in {} |-> NULL]
NoRow == [id |-> NULL]

----------------------------------------------------------------------------
(* security.py: pure functions *)

hash_password(p) == <<"argon2id", p>>

verify_password(p, h) == h = <<"argon2id", p>>

hash_token(t) == <<"sha256", t>>

create_access_token(uid, t) ==
    [type |-> "access", sub |-> uid, exp |-> t + Minutes(ACCESS_TOKEN_MINUTES),
     iat |-> t, jti |-> NULL]

create_refresh_token(uid, t, jti) ==
    [type |-> "refresh", sub |-> uid, exp |-> t + Days(REFRESH_TOKEN_DAYS),
     iat |-> t, jti |-> jti]

create_mfa_token(uid, t) ==
    [type |-> "mfa_pending", sub |-> uid, exp |-> t + Minutes(MFA_TOKEN_MINUTES),
     iat |-> t, jti |-> NULL]

\* jwt.decode: "ok", or the exception it raises
decode_token(tok, t) == IF tok.exp <= t THEN "ExpiredSignatureError" ELSE "ok"

\* a validator that does not look at the type claim
validate_any_type(tok, type, t) == decode_token(tok, t)

validate_token(tok, type, t) ==
    IF decode_token(tok, t) # "ok" THEN decode_token(tok, t)
    ELSE IF tok.type # type THEN "InvalidTokenError"
    ELSE "ok"

validate_access_token(tok, t) == validate_token(tok, "access", t)
validate_refresh_token(tok, t) == validate_token(tok, "refresh", t)

\* an mfa_pending token that one wrong code burns
validate_mfa_token_once(tok, t) ==
    IF <<"mfa", tok, "InvalidMFACode">> \in answered THEN "InvalidTokenError"
    ELSE validate_token(tok, "mfa_pending", t)

\* an mfa_pending token that a completed login consumes
validate_mfa_token_unused(tok, t) ==
    IF \E k \in {"mfa", "recovery"} : <<k, tok, "ok">> \in answered THEN "InvalidTokenError"
    ELSE validate_token(tok, "mfa_pending", t)

validate_mfa_token(tok, t) == validate_token(tok, "mfa_pending", t)

\* A TOTP code is the six digits pyotp derives from one secret at one time step;
\* the model takes the codes of different secrets or steps to differ.
TotpCode(secret, step) == [secret |-> secret, step |-> step, digits |-> 6]

\* a verification that accepts the current step's code only (valid_window=0)
verify_totp_now(secret, code, t) == code = TotpCode(secret, t)

\* pyotp.TOTP(secret).verify(code, valid_window=1): the input equals, as a string,
\* the code of one of the steps t-1, t, t+1
verify_totp(secret, code, t) ==
    \E k \in (0 - VALID_WINDOW)..VALID_WINDOW : code = TotpCode(secret, t + k)

\* A recovery code as typed by a client: the hex digits of one generated code,
\* spelled in a style: with the dash, without it or with a space in its place, in
\* upper or lower case.
RecoveryStyles == {"XXXX-XXXX", "xxxxxxxx"}
RecoveryText(cid, style) == [hex |-> cid, style |-> style]

\* str.replace("-", "") and str.upper() on a spelling
RemoveDashes(style) ==
    CASE style = "XXXX-XXXX" -> "XXXXXXXX"
      [] style = "xxxx-xxxx" -> "xxxxxxxx"
      [] OTHER -> style

Upper(style) ==
    CASE style = "xxxxxxxx" -> "XXXXXXXX"
      [] style = "xxxx-xxxx" -> "XXXX-XXXX"
      [] style = "xxxx xxxx" -> "XXXX XXXX"
      [] OTHER -> style

\* a normalisation that removes the dashes and keeps the case
NormalizeDashesOnly(c) == [hex |-> c.hex, style |-> RemoveDashes(c.style)]

\* hash_recovery_code: code.replace("-", "").upper()
NormalizeRecovery(c) == [hex |-> c.hex, style |-> Upper(RemoveDashes(c.style))]
hash_recovery_code(c) == <<"sha256", NormalizeRecovery(c)>>
verify_recovery_code(c, h) == hash_recovery_code(c) = h

\* str.lower() on the e-mail addresses the model's clients type
Lower(e) == IF e = "Alice@X.com" THEN "alice@x.com" ELSE e

----------------------------------------------------------------------------
(* Rows and the request-local view *)

NewUser(id, email, pwhash) ==
    [id |-> id, email |-> email, password_hash |-> pwhash, is_active |-> TRUE,
     mfa_enabled |-> FALSE, mfa_secret |-> NULL,
     failed_login_attempts |-> 0, locked_until |-> NULL]

IdleReq ==
    [kind |-> "none", pc |-> "done", user |-> NoRow, pwok |-> FALSE,
     tok |-> NoRow, sess |-> NULL, code |-> <<>>, arg |-> "",
     late |-> FALSE, stale |-> FALSE,
     upd |-> EmptyFn, revoke |-> EmptyFn, newSess |-> EmptyFn,
     useCodes |-> EmptyFn, delCodes |-> {}, newCodes |-> EmptyFn,
     reset |-> NULL, useResets |-> EmptyFn, newResets |-> EmptyFn,
     error |-> "", out |-> {}, result |-> "none"]

\* the columns of row that differ from what the session loaded: what flush UPDATEs
Changed(loaded, new) == [f \in {g \in DOMAIN new : new[g] # loaded[g]} |-> new[f]]

Patch(row, upd) == [f \in DOMAIN row |-> IF f \in DOMAIN upd THEN upd[f] ELSE row[f]]

\* rows a request holds until its transaction ends
Locks(r) ==
    IF req[r].pc # "end" THEN {}
    ELSE (IF DOMAIN req[r].upd # {} THEN {<<"users", req[r].user.id>>} ELSE {})
         \cup {<<"user_sessions", s>> : s \in DOMAIN req[r].revoke}
         \cup {<<"mfa_recovery_codes", c>> : c \in DOMAIN req[r].useCodes \cup req[r].delCodes}
         \cup {<<"password_reset_tokens", k>> : k \in DOMAIN req[r].useResets}

Free(r, rows) == \A o \in Reqs \ {r} : Locks(o) \cap rows = {}

get_by_email(email) ==
    IF \E id \in DOMAIN users : users[id].email = email
    THEN users[CHOOSE id \in DOMAIN users : users[id].email = email]
    ELSE NoRow

get_by_id(id) == IF id \in DOMAIN users THEN users[id] ELSE NoRow

----------------------------------------------------------------------------
(* get_db: the end of a request's transaction *)

\* session.commit(): the flushed statements become the committed rows
CommitUsers(q) ==
    IF DOMAIN q.upd = {} THEN users
    ELSE [users EXCEPT ![q.user.id] = Patch(@, q.upd)]

\* a commit that loses the request's session rows
CommitNoSessions(q) == sessions

CommitSessions(q) ==
    LET kept == [s \in DOMAIN sessions |->
                    IF s \in DOMAIN q.revoke
                    THEN [sessions[s] EXCEPT !.revoked_at = q.revoke[s]]
                    ELSE sessions[s]]
    IN  kept @@ q.newSess

CommitCodes(q) ==
    LET left == DOMAIN codes \ q.delCodes
        kept == [c \in left |->
                    IF c \in DOMAIN q.useCodes
                    THEN [codes[c] EXCEPT !.used_at = q.useCodes[c]]
                    ELSE codes[c]]
    IN  kept @@ q.newCodes

CommitResets(q) ==
    LET kept == [k \in DOMAIN resets |->
                    IF k \in DOMAIN q.useResets
                    THEN [resets[k] EXCEPT !.used_at = q.useResets[k]]
                    ELSE resets[k]]
    IN  kept @@ q.newResets

\* the responses to MFA logins, recovery logins and reset confirmations, by presented token
Answered(q, result) ==
    IF q.kind \in {"mfa", "recovery", "confirm_reset"}
    THEN answered \cup {<<q.kind, q.tok, result>>}
    ELSE answered

\* what stays in a slot once its response is sent
Done(q, result) ==
    [IdleReq EXCEPT !.kind = q.kind, !.result = result, !.pwok = q.pwok,
                    !.late = q.late, !.stale = q.stale]

FailCount(q, result) ==
    IF q.kind # "login" THEN consecFails
    ELSE IF result = "InvalidCredentials" /\ q.user # NoRow
         THEN (IF consecFails < MaxFails THEN consecFails + 1 ELSE consecFails)
    ELSE IF q.pwok THEN 0
    ELSE consecFails

\* the handler raised: get_db rolls the transaction back and the error is the response
GetDbRollback(r) ==
    LET q == req[r] IN
    /\ q.pc = "end"
    /\ q.error # ""
    /\ req' = [req EXCEPT ![r] = Done(q, q.error)]
    /\ issued' = issued \cup q.out
    /\ consecFails' = FailCount(q, q.error)
    /\ answered' = Answered(q, q.error)
    /\ UNCHANGED <<now, ticks, nextId, lastId, users, sessions, codes, resets, audit, members, calls,
                   rotations, grants>>

\* the request is cancelled or the process dies before the handler returns: the
\* session is closed without a commit, which discards what was flushed
Abandon(r) ==
    LET q == req[r] IN
    /\ q.pc # "done"
    /\ req' = [req EXCEPT ![r] = Done(q, "abandoned")]
    /\ UNCHANGED <<now, ticks, nextId, lastId, users, sessions, codes, resets, audit, members, calls, issued,
                   rotations, grants, consecFails, answered>>

\* the handler returned: get_db commits and the value is the response
GetDbCommit(r) ==
    LET q == req[r] IN
    /\ q.pc = "end"
    /\ q.error = ""
    /\ users' = CommitUsers(q)
    /\ sessions' = CommitSessions(q)
    /\ codes' = CommitCodes(q)
    /\ resets' = CommitResets(q)
    /\ answered' = Answered(q, "ok")
    /\ req' = [req EXCEPT ![r] = Done(q, "ok")]
    /\ issued' = issued \cup q.out
    /\ consecFails' = FailCount(q, "ok")
    /\ rotations' = IF q.kind = "refresh"
                     THEN rotations \cup {<<q.tok, t>> : t \in {o \in q.out : o.type = "refresh"}}
                     ELSE rotations
    /\ grants' = IF q.kind = "recovery"
                  THEN grants \cup {<<c, s>> : c \in DOMAIN q.useCodes, s \in DOMAIN q.newSess}
                  ELSE grants
    /\ UNCHANGED <<now, ticks, nextId, lastId, audit, members, calls>>

\* a request that raised before it wrote anything: nothing to roll back
Reject(r, kind, result, q0) ==
    /\ req' = [req EXCEPT ![r] = Done([q0 EXCEPT !.kind = kind], result)]
    /\ consecFails' = FailCount([q0 EXCEPT !.kind = kind], result)
    /\ answered' = Answered([q0 EXCEPT !.kind = kind], result)
    /\ UNCHANGED <<now, ticks, nextId, lastId, users, sessions, codes, resets, audit, members, calls, issued,
                   rotations, grants>>

----------------------------------------------------------------------------
(* AuthService *)

\* AuthService.register, with get_db's commit
Register(email, password) ==
    /\ nextId <= lastId
    /\ get_by_email(Lower(email)) = NoRow
    /\ users' = users @@ (nextId :> NewUser(nextId, Lower(email), hash_password(password)))
    /\ nextId' = nextId + 1
    /\ UNCHANGED <<now, ticks, lastId, sessions, codes, resets, audit, members, calls, req, issued, rotations,
                   grants, consecFails, answered>>

\* AuthService._create_tokens: the tokens and the flushed session row
create_tokens(q, uid) ==
    LET rt == create_refresh_token(uid, now, nextId)
        row == [user_id |-> uid, token_hash |-> hash_token(rt),
                expires_at |-> now + Days(SESSION_DAYS), revoked_at |-> NULL,
                via |-> q.kind, mfa |-> q.user.mfa_enabled]
    IN  [q EXCEPT !.newSess = (nextId :> row),
                  !.out = {create_access_token(uid, now), rt},
                  !.pc = "end"]

\* a login that tells an unknown e-mail from a wrong password
user_not_found(user) == IF user = NoRow THEN "UserNotFound" ELSE "InvalidCredentials"

\* AuthService.login: the error raised when get_by_email finds no user
invalid_credentials(user) == "InvalidCredentials"

\* AuthService.login up to the password check
LoginStart(r, email, password) ==
    LET user == get_by_email(Lower(email))
        q0 == [IdleReq EXCEPT !.user = user]
    IN
    /\ req[r].pc = "done"
    /\ IF user = NoRow
       THEN Reject(r, "login", invalid_credentials(user), q0)
       ELSE IF user.locked_until # NULL /\ user.locked_until > now
       THEN Reject(r, "login", "AccountLocked", q0)
       ELSE /\ req' = [req EXCEPT ![r] =
                         [q0 EXCEPT !.kind = "login", !.pc = "write",
                                    !.pwok = verify_password(password, user.password_hash)]]
            /\ UNCHANGED <<now, ticks, nextId, lastId, users, sessions, codes, resets, audit, members, calls,
                           issued, rotations, grants, consecFails, answered>>

\* AuthService._handle_failed_login: the columns it sets on the loaded user
handle_failed_login(user) ==
    LET n == user.failed_login_attempts + 1 IN
    [failed_login_attempts |-> n,
     locked_until |-> IF n >= MAX_FAILED_ATTEMPTS
                      THEN now + Minutes(LOCKOUT_DURATION_MINUTES)
                      ELSE user.locked_until]

\* a login that counts a correct password as one more failure
count_as_failed_login(user) ==
    [failed_login_attempts |-> user.failed_login_attempts + 1, locked_until |-> user.locked_until]

\* AuthService.login: the reset it sets on the loaded user after a correct password
reset_failed_login(user) == [failed_login_attempts |-> 0, locked_until |-> NULL]

\* a login that never takes the MFA branch
mfa_never_required(user) == FALSE

\* AuthService.login: the MFA branch, taken on the refreshed user
mfa_required(user) == user.mfa_enabled

\* AuthService.login from the password check on: flush, refresh, MFA branch, tokens
LoginWrite(r) ==
    LET q == req[r]
        set == IF q.pwok THEN reset_failed_login(q.user) ELSE handle_failed_login(q.user)
        upd == Changed(q.user, set)
        fresh == Patch(users[q.user.id], upd)
        q1 == [q EXCEPT !.upd = upd, !.user = fresh, !.pc = "end"]
    IN
    /\ q.pc = "write"
    /\ q.kind = "login"
    /\ DOMAIN upd # {} => Free(r, {<<"users", q.user.id>>})
    /\ IF ~q.pwok
       THEN /\ req' = [req EXCEPT ![r] = [q1 EXCEPT !.error = "InvalidCredentials"]]
            /\ UNCHANGED nextId
       ELSE IF mfa_required(fresh)
       THEN /\ req' = [req EXCEPT ![r] =
                         [q1 EXCEPT !.error = "MFARequired",
                                    !.out = {create_mfa_token(fresh.id, now)}]]
            /\ UNCHANGED nextId
       ELSE /\ nextId <= lastId
            /\ req' = [req EXCEPT ![r] = create_tokens(q1, fresh.id)]
            /\ nextId' = nextId + 1
    /\ UNCHANGED <<now, ticks, lastId, users, sessions, codes, resets, audit, members, calls, issued,
                   rotations, grants, consecFails, answered>>

\* a session lookup that also returns revoked sessions
get_by_token_hash_any(h) ==
    LET hit == {s \in DOMAIN sessions : sessions[s].token_hash = h}
    IN  IF hit = {} THEN NULL ELSE CHOOSE s \in hit : TRUE

\* UserSessionRepository.get_by_token_hash: the id of the unrevoked row, or NULL
get_by_token_hash(h) ==
    LET hit == {s \in DOMAIN sessions :
                  sessions[s].token_hash = h /\ sessions[s].revoked_at = NULL}
    IN  IF hit = {} THEN NULL ELSE CHOOSE s \in hit : TRUE

\* AuthService.refresh_tokens up to the revocation
RefreshStart(r, tok) ==
    LET sess == get_by_token_hash(hash_token(tok))
        user == get_by_id(tok.sub)
        q0 == [IdleReq EXCEPT !.tok = tok, !.late = \E p \in rotations : p[1] = tok,
                              !.stale = tok.exp <= now]
    IN
    /\ req[r].pc = "done"
    /\ tok \in issued
    /\ IF validate_refresh_token(tok, now) # "ok"
       THEN Reject(r, "refresh", "TokenExpired", q0)
       ELSE IF sess = NULL
       THEN Reject(r, "refresh", "InvalidToken", q0)
       ELSE IF user = NoRow \/ ~user.is_active
       THEN Reject(r, "refresh", "InvalidToken", q0)
       ELSE /\ req' = [req EXCEPT ![r] =
                         [q0 EXCEPT !.kind = "refresh", !.pc = "write",
                                    !.user = user, !.sess = sess]]
            /\ UNCHANGED <<now, ticks, nextId, lastId, users, sessions, codes, resets, audit, members, calls,
                           issued, rotations, grants, consecFails, answered>>

\* UserSessionRepository.revoke: the UPDATE of the loaded row
revoke(q) == [q EXCEPT !.revoke = (q.sess :> now)]

\* AuthService.refresh_tokens: revoke the old session, create the new tokens
RefreshWrite(r) ==
    LET q == req[r] IN
    /\ q.pc = "write"
    /\ q.kind = "refresh"
    /\ Free(r, {<<"user_sessions", q.sess>>})
    /\ nextId <= lastId
    /\ req' = [req EXCEPT ![r] = create_tokens(revoke(q), q.user.id)]
    /\ nextId' = nextId + 1
    /\ UNCHANGED <<now, ticks, lastId, users, sessions, codes, resets, audit, members, calls, issued,
                   rotations, grants, consecFails, answered>>

\* AuthService.verify_mfa_login
VerifyMfaLogin(r, tok, code) ==
    LET user == get_by_id(tok.sub)
        q0 == [IdleReq EXCEPT !.tok = tok, !.user = user, !.kind = "mfa",
                              !.late = <<"mfa", tok, "InvalidMFACode">> \in answered,
                              !.stale = tok.exp <= now,
                              !.pwok = user # NoRow /\ verify_totp(user.mfa_secret, code, now)]
    IN
    /\ req[r].pc = "done"
    /\ tok \in issued
    /\ IF validate_mfa_token(tok, now) # "ok"
       THEN Reject(r, "mfa", "InvalidToken", q0)
       ELSE IF user = NoRow \/ user.mfa_secret = NULL
       THEN Reject(r, "mfa", "InvalidToken", q0)
       ELSE IF ~verify_totp(user.mfa_secret, code, now)
       THEN Reject(r, "mfa", "InvalidMFACode", q0)
       ELSE /\ nextId <= lastId
            /\ req' = [req EXCEPT ![r] = create_tokens(q0, user.id)]
            /\ nextId' = nextId + 1
            /\ UNCHANGED <<now, ticks, lastId, users, sessions, codes, resets, audit, members, calls, issued,
                           rotations, grants, consecFails, answered>>

\* a recovery-code lookup that also returns used records
get_all_codes(uid) == {c \in DOMAIN codes : codes[c].user_id = uid}

\* MFARecoveryCodeRepository.get_unused_codes
get_unused_codes(uid) ==
    {c \in DOMAIN codes : codes[c].user_id = uid /\ codes[c].used_at = NULL}

\* AuthService.verify_recovery_code_login up to the matching record
RecoveryStart(r, tok, text) ==
    LET user == get_by_id(tok.sub)
        hit == {c \in get_unused_codes(tok.sub) :
                  verify_recovery_code(text, codes[c].code_hash)}
        q0 == [IdleReq EXCEPT !.tok = tok, !.user = user, !.kind = "recovery",
                              !.code = text.hex,
                              !.late = \E g \in grants : g[1] = text.hex]
    IN
    /\ req[r].pc = "done"
    /\ tok \in issued
    /\ IF validate_mfa_token(tok, now) # "ok"
       THEN Reject(r, "recovery", "InvalidToken", q0)
       ELSE IF user = NoRow
       THEN Reject(r, "recovery", "InvalidToken", q0)
       ELSE IF hit = {}
       THEN Reject(r, "recovery", "InvalidMFACode", q0)
       ELSE /\ req' = [req EXCEPT ![r] =
                         [q0 EXCEPT !.pc = "write", !.code = CHOOSE c \in hit : TRUE]]
            /\ UNCHANGED <<now, ticks, nextId, lastId, users, sessions, codes, resets, audit, members, calls,
                           issued, rotations, grants, consecFails, answered>>

\* MFARecoveryCodeRepository.mark_used: the UPDATE of the loaded record
mark_used(q) == [q EXCEPT !.useCodes = (q.code :> now)]

\* AuthService.verify_recovery_code_login: mark the record used, create the tokens.
\* The UPDATE of a record another request deleted matches no row (StaleDataError).
RecoveryWrite(r) ==
    LET q == req[r] IN
    /\ q.pc = "write"
    /\ q.kind = "recovery"
    /\ Free(r, {<<"mfa_recovery_codes", q.code>>})
    /\ IF q.code \notin DOMAIN codes
       THEN /\ req' = [req EXCEPT ![r] = [q EXCEPT !.pc = "end", !.error = "ServerError"]]
            /\ UNCHANGED nextId
       ELSE /\ nextId <= lastId
            /\ req' = [req EXCEPT ![r] = create_tokens(mark_used(q), q.user.id)]
            /\ nextId' = nextId + 1
    /\ UNCHANGED <<now, ticks, lastId, users, sessions, codes, resets, audit, members, calls, issued,
                   rotations, grants, consecFails, answered>>

\* dependencies.get_current_user: "ok", or the error it raises
get_current_user(tok) ==
    IF validate_access_token(tok, now) = "ExpiredSignatureError" THEN "TokenExpired"
    ELSE IF validate_access_token(tok, now) # "ok" THEN "InvalidToken"
    ELSE IF get_by_id(tok.sub) = NoRow THEN "InvalidToken"
    ELSE IF ~get_by_id(tok.sub).is_active THEN "AuthenticationError"
    ELSE "ok"

\* a request of the signed-in user: get_current_user, then the handler's own check
AuthedStart(r, kind, tok, denied, arg) ==
    LET user == get_by_id(tok.sub)
        q0 == [IdleReq EXCEPT !.kind = kind, !.arg = arg]
    IN
    /\ req[r].pc = "done"
    /\ tok \in issued
    /\ IF get_current_user(tok) # "ok"
       THEN Reject(r, kind, get_current_user(tok), q0)
       ELSE IF denied[1]
       THEN Reject(r, kind, denied[2], [q0 EXCEPT !.user = user])
       ELSE /\ req' = [req EXCEPT ![r] = [q0 EXCEPT !.pc = "write", !.user = user]]
            /\ UNCHANGED <<now, ticks, nextId, lastId, users, sessions, codes, resets, audit, members, calls,
                           issued, rotations, grants, consecFails, answered>>

\* AuthService.change_password up to the password check
ChangePasswordStart(r, tok, current, new) ==
    AuthedStart(r, "change_password", tok,
                <<get_by_id(tok.sub) # NoRow
                    /\ ~verify_password(current, get_by_id(tok.sub).password_hash),
                  "InvalidCredentials">>, new)

\* AuthService.change_password: what it flushes (a new salted hash and
\* last_password_change always differ from the loaded row)
change_password(q) ==
    [q EXCEPT !.upd = [password_hash |-> hash_password(q.arg)], !.pc = "end"]

ChangePasswordWrite(r) ==
    LET q == req[r] IN
    /\ q.pc = "write"
    /\ q.kind = "change_password"
    /\ Free(r, {<<"users", q.user.id>>})
    /\ req' = [req EXCEPT ![r] = change_password(q)]
    /\ UNCHANGED <<now, ticks, nextId, lastId, users, sessions, codes, resets, audit, members, calls, issued,
                   rotations, grants, consecFails, answered>>

\* security.generate_reset_token: the token request_password_reset returns
create_reset_token(uid, t, id) ==
    [type |-> "reset", sub |-> uid, exp |-> t + Minutes(60 * RESET_TOKEN_HOURS),
     iat |-> t, jti |-> id]

\* AuthService.request_password_reset: nothing for an unknown e-mail, else a
\* token row.  The token is the service's return value; the mail that would
\* carry it to the user is not part of the repository.
RequestPasswordReset(r, email) ==
    LET user == get_by_email(Lower(email))
        tok == create_reset_token(user.id, now, nextId)
        row == [user_id |-> user.id, token_hash |-> hash_token(tok),
                expires_at |-> now + Minutes(60 * RESET_TOKEN_HOURS), used_at |-> NULL]
    IN
    /\ req[r].pc = "done"
    /\ IF user = NoRow
       THEN Reject(r, "request_reset", "ok", IdleReq)
       ELSE /\ nextId <= lastId
            /\ req' = [req EXCEPT ![r] =
                         [IdleReq EXCEPT !.kind = "request_reset", !.pc = "end", !.user = user,
                                         !.newResets = (nextId :> row), !.out = {tok}]]
            /\ nextId' = nextId + 1
            /\ UNCHANGED <<now, ticks, lastId, users, sessions, codes, resets, audit, members, calls, issued,
                           rotations, grants, consecFails, answered>>

\* PasswordResetRepository.get_by_hash: the id of the row, or NULL
get_by_hash(h) ==
    LET hit == {k \in DOMAIN resets : resets[k].token_hash = h}
    IN  IF hit = {} THEN NULL ELSE CHOOSE k \in hit : TRUE

\* AuthService.confirm_password_reset up to the update
ConfirmPasswordResetStart(r, tok, new) ==
    LET k == get_by_hash(hash_token(tok))
        user == get_by_id(resets[k].user_id)
        q0 == [IdleReq EXCEPT !.tok = tok, !.arg = new,
                              !.late = <<"confirm_reset", tok, "ok">> \in answered,
                              !.stale = tok.exp < now]
    IN
    /\ req[r].pc = "done"
    /\ IF k = NULL
       THEN Reject(r, "confirm_reset", "InvalidToken", q0)
       ELSE IF resets[k].used_at # NULL
       THEN Reject(r, "confirm_reset", "InvalidToken", q0)
       ELSE IF resets[k].expires_at < now
       THEN Reject(r, "confirm_reset", "TokenExpired", q0)
       ELSE IF user = NoRow
       THEN Reject(r, "confirm_reset", "UserNotFound", q0)
       ELSE /\ req' = [req EXCEPT ![r] =
                         [q0 EXCEPT !.kind = "confirm_reset", !.pc = "write",
                                    !.user = user, !.reset = k]]
            /\ UNCHANGED <<now, ticks, nextId, lastId, users, sessions, codes, resets, audit, members, calls,
                           issued, rotations, grants, consecFails, answered>>

\* a reset that revokes no session
revoke_no_user_sessions(uid) == {}

\* UserSessionRepository.revoke_all_user_sessions: the rows it selects and updates
revoke_all_user_sessions(uid) ==
    {s \in DOMAIN sessions : sessions[s].user_id = uid /\ sessions[s].revoked_at = NULL}

\* a reset that leaves its token unused
mark_unused(q) == q

\* PasswordResetRepository.mark_used: the UPDATE of the loaded token row
mark_reset_used(q) == [q EXCEPT !.useResets = (q.reset :> now)]

\* AuthService.confirm_password_reset: what it flushes (a new salted hash and
\* last_password_change always differ from the loaded row)
confirm_password_reset(q) ==
    [mark_reset_used(q) EXCEPT
        !.upd = [password_hash |-> hash_password(q.arg)]
                @@ Changed(q.user, [failed_login_attempts |-> 0, locked_until |-> NULL]),
        !.revoke = [s \in revoke_all_user_sessions(q.user.id) |-> now],
        !.pc = "end"]

ConfirmPasswordResetWrite(r) ==
    LET q == req[r]
        q1 == confirm_password_reset(q)
    IN
    /\ q.pc = "write"
    /\ q.kind = "confirm_reset"
    /\ Free(r, {<<"users", q.user.id>>}
               \cup {<<"password_reset_tokens", k>> : k \in DOMAIN q1.useResets}
               \cup {<<"user_sessions", s>> : s \in DOMAIN q1.revoke})
    /\ req' = [req EXCEPT ![r] = q1]
    /\ UNCHANGED <<now, ticks, nextId, lastId, users, sessions, codes, resets, audit, members, calls, issued,
                   rotations, grants, consecFails, answered>>

----------------------------------------------------------------------------
(* MFAService (identity/service.py, the class the routers are given) *)

\* MFAService.setup_mfa
SetupMfaStart(r, tok) == AuthedStart(r, "setup_mfa", tok, <<FALSE, "">>, "")

setup_mfa(q, secret) == [q EXCEPT !.upd = [mfa_secret |-> secret], !.pc = "end"]

SetupMfaWrite(r) ==
    LET q == req[r] IN
    /\ q.pc = "write"
    /\ q.kind = "setup_mfa"
    /\ Free(r, {<<"users", q.user.id>>})
    /\ nextId <= lastId
    /\ req' = [req EXCEPT ![r] = setup_mfa(q, nextId)]
    /\ nextId' = nextId + 1
    /\ UNCHANGED <<now, ticks, lastId, users, sessions, codes, resets, audit, members, calls, issued,
                   rotations, grants, consecFails, answered>>

\* MFARecoveryCodeRepository.delete_user_codes: the rows it selects and deletes
delete_user_codes(uid) == {c \in DOMAIN codes : codes[c].user_id = uid}

\* security.generate_recovery_codes + MFARecoveryCodeRepository.create_codes
create_codes(uid, batch) ==
    [c \in {batch} \X (1..RECOVERY_CODE_COUNT) |->
        [user_id |-> uid,
         code_hash |-> hash_recovery_code(RecoveryText(c, "XXXX-XXXX")),
         used_at |-> NULL]]

\* MFAService.complete_mfa_setup up to the code check, on the loaded user
CompleteMfaSetupStart(r, tok, code) ==
    AuthedStart(r, "complete_mfa_setup", tok,
                <<get_by_id(tok.sub) # NoRow
                    /\ (get_by_id(tok.sub).mfa_secret = NULL
                        \/ ~verify_totp(get_by_id(tok.sub).mfa_secret, code, now)),
                  "InvalidMFACode">>, "")

\* MFAService.complete_mfa_setup: what it flushes
complete_mfa_setup(q, batch) ==
    [q EXCEPT !.upd = Changed(q.user, [mfa_enabled |-> TRUE]),
              !.delCodes = delete_user_codes(q.user.id),
              !.newCodes = create_codes(q.user.id, batch),
              !.pc = "end"]

CompleteMfaSetupWrite(r) ==
    LET q == req[r]
        q1 == complete_mfa_setup(q, nextId)
    IN
    /\ q.pc = "write"
    /\ q.kind = "complete_mfa_setup"
    /\ Free(r, (IF DOMAIN q1.upd # {} THEN {<<"users", q.user.id>>} ELSE {})
               \cup {<<"mfa_recovery_codes", c>> : c \in q1.delCodes})
    /\ nextId <= lastId
    /\ req' = [req EXCEPT ![r] = q1]
    /\ nextId' = nextId + 1
    /\ UNCHANGED <<now, ticks, lastId, users, sessions, codes, resets, audit, members, calls, issued,
                   rotations, grants, consecFails, answered>>

\* MFAService.disable_mfa up to the password check
DisableMfaStart(r, tok, password) ==
    AuthedStart(r, "disable_mfa", tok,
                <<get_by_id(tok.sub) # NoRow
                    /\ ~verify_password(password, get_by_id(tok.sub).password_hash),
                  "InvalidCredentials">>, "")

\* a disable that leaves the recovery codes in place
disable_mfa_keep_codes(q) ==
    [q EXCEPT !.upd = Changed(q.user, [mfa_enabled |-> FALSE, mfa_secret |-> NULL]),
              !.pc = "end"]

\* MFAService.disable_mfa: what it flushes
disable_mfa(q) ==
    [q EXCEPT !.upd = Changed(q.user, [mfa_enabled |-> FALSE, mfa_secret |-> NULL]),
              !.delCodes = delete_user_codes(q.user.id),
              !.pc = "end"]

DisableMfaWrite(r) ==
    LET q == req[r]
        q1 == disable_mfa(q)
    IN
    /\ q.pc = "write"
    /\ q.kind = "disable_mfa"
    /\ Free(r, (IF DOMAIN q1.upd # {} THEN {<<"users", q.user.id>>} ELSE {})
               \cup {<<"mfa_recovery_codes", c>> : c \in q1.delCodes})
    /\ req' = [req EXCEPT ![r] = q1]
    /\ UNCHANGED <<now, ticks, nextId, lastId, users, sessions, codes, resets, audit, members, calls, issued,
                   rotations, grants, consecFails, answered>>

\* MFAService.regenerate_recovery_codes up to the mfa_enabled check
RegenerateRecoveryCodesStart(r, tok) ==
    AuthedStart(r, "regenerate_recovery_codes", tok,
                <<get_by_id(tok.sub) # NoRow /\ ~get_by_id(tok.sub).mfa_enabled,
                  "InvalidMFACode">>, "")

\* delete_user_codes, first statement: SELECT the account's rows (no row lock is taken)
RegenerateRecoveryCodesSelect(r) ==
    LET q == req[r] IN
    /\ q.pc = "write"
    /\ q.kind = "regenerate_recovery_codes"
    /\ req' = [req EXCEPT ![r] = [q EXCEPT !.delCodes = delete_user_codes(q.user.id),
                                           !.pc = "flush"]]
    /\ UNCHANGED <<now, ticks, nextId, lastId, users, sessions, codes, resets, audit, members, calls, issued,
                   rotations, grants, consecFails, answered>>

\* MFAService.regenerate_recovery_codes: the batch it inserts after the delete
regenerate_recovery_codes(q, batch) ==
    [q EXCEPT !.newCodes = create_codes(q.user.id, batch), !.pc = "end"]

\* delete_user_codes, flush: DELETE the selected rows (waiting for their locks; a
\* row that is gone by then matches nothing and is only warned about), then create_codes
RegenerateRecoveryCodesFlush(r) ==
    LET q == req[r] IN
    /\ q.pc = "flush"
    /\ q.kind = "regenerate_recovery_codes"
    /\ Free(r, {<<"mfa_recovery_codes", c>> : c \in q.delCodes})
    /\ nextId <= lastId
    /\ req' = [req EXCEPT ![r] = regenerate_recovery_codes(q, nextId)]
    /\ nextId' = nextId + 1
    /\ UNCHANGED <<now, ticks, lastId, users, sessions, codes, resets, audit, members, calls, issued,
                   rotations, grants, consecFails, answered>>

----------------------------------------------------------------------------
(* Permissions (identity/permissions.py).  A permission "scope:name" is the *)
(* pair <<scope, name>>.                                                    *)

MEMBER_PERMISSIONS ==
    {<<"proposal", "view">>, <<"proposal", "edit">>,
     <<"analysis", "run">>, <<"analysis", "view">>}

ADMIN_PERMISSIONS ==
    MEMBER_PERMISSIONS \cup
    {<<"proposal", "create">>, <<"proposal", "delete">>, <<"analysis", "export">>,
     <<"org", "users:manage">>, <<"org", "settings:manage">>,
     <<"org", "audit:view">>, <<"org", "templates:manage">>}

OWNER_PERMISSIONS == ADMIN_PERMISSIONS

SUPER_USER_PERMISSIONS ==
    {<<"platform", "config">>, <<"platform", "tenants">>,
     <<"platform", "audit">>, <<"platform", "features">>}

\* a resolver whose platform branch is one more elif of the org-role chain
get_permissions_elif(org_role, platform_role) ==
    IF org_role = "member" THEN MEMBER_PERMISSIONS
    ELSE IF org_role = "admin" THEN ADMIN_PERMISSIONS
    ELSE IF org_role = "owner" THEN OWNER_PERMISSIONS
    ELSE IF platform_role = "super_user" THEN SUPER_USER_PERMISSIONS
    ELSE {}

get_permissions_for_role(org_role, platform_role) ==
    (IF org_role = "member" THEN MEMBER_PERMISSIONS
     ELSE IF org_role = "admin" THEN ADMIN_PERMISSIONS
     ELSE IF org_role = "owner" THEN OWNER_PERMISSIONS
     ELSE {})
    \cup (IF platform_role = "super_user" THEN SUPER_USER_PERMISSIONS ELSE {})

----------------------------------------------------------------------------
(* Calls of the pure functions: the arguments are drawn first, then the    *)
(* function is applied to them                                              *)

\* the call's return value is recorded
ApplyCall(i, value) ==
    /\ ~calls[i].done
    /\ calls' = [calls EXCEPT ![i].result = value, ![i].done = TRUE]
    /\ UNCHANGED <<now, ticks, nextId, lastId, users, sessions, codes, resets, audit, members, req,
                   issued, rotations, grants, consecFails, answered>>

Applied == {i \in DOMAIN calls : calls[i].done}

\* the three validators, applied to tokens of each kind minted at time 0, at a time
\* before and after their expiry
Validators == {"validate_access_token", "validate_refresh_token", "validate_mfa_token"}

MintedTokens ==
    {create_access_token(1, 0), create_refresh_token(1, 0, 2), create_mfa_token(1, 0)}

ValidationTimes == {0, Minutes(MFA_TOKEN_MINUTES), Minutes(ACCESS_TOKEN_MINUTES)}

TokenCalls ==
    [fn : Validators, tok : MintedTokens, t : ValidationTimes, result : {""}, done : {FALSE}]

ValidateToken ==
    \E i \in DOMAIN calls :
        ApplyCall(i, CASE calls[i].fn = "validate_access_token" ->
                              validate_access_token(calls[i].tok, calls[i].t)
                       [] calls[i].fn = "validate_refresh_token" ->
                              validate_refresh_token(calls[i].tok, calls[i].t)
                       [] calls[i].fn = "validate_mfa_token" ->
                              validate_mfa_token(calls[i].tok, calls[i].t))

\* verify_totp applied, at the step of ten minutes after 0 or the next one, to the
\* codes of the secret near that step and ten minutes before it, to such a code
\* with a digit lost or added, and to the code of another secret
TotpSteps == {Minutes(10), Minutes(10) + 1}

TotpTexts ==
    {TotpCode(1, k) : k \in {0} \cup ((Minutes(10) - 2)..(Minutes(10) + 3))}
    \cup {[TotpCode(1, k) EXCEPT !.digits = n] : k \in TotpSteps, n \in {5, 7}}
    \cup {TotpCode(2, k) : k \in TotpSteps}

TotpCalls ==
    [fn : {"verify_totp"}, secret : {1}, code : TotpTexts, t : TotpSteps,
     result : {FALSE}, done : {FALSE}]

VerifyTotp ==
    \E i \in DOMAIN calls :
        ApplyCall(i, verify_totp(calls[i].secret, calls[i].code, calls[i].t))

\* hash_recovery_code and verify_recovery_code applied to two codes in every
\* spelling, against the hash of the first code as generated or as typed in lower case
RecoveryTexts ==
    {RecoveryText(h, st) : h \in {1, 2},
                           st \in {"XXXX-XXXX", "xxxx-xxxx", "XXXXXXXX", "xxxxxxxx", "XXXX XXXX"}}

RecoveryCalls ==
    [fn : {"verify_recovery_code"}, code : RecoveryTexts,
     stored : {RecoveryText(1, st) : st \in RecoveryStyles},
     result : {[hash |-> <<>>, ok |-> FALSE]}, done : {FALSE}]

VerifyRecoveryCode ==
    \E i \in DOMAIN calls :
        ApplyCall(i, [hash |-> hash_recovery_code(calls[i].code),
                      ok |-> verify_recovery_code(calls[i].code,
                                                  hash_recovery_code(calls[i].stored))])

\* roles as stored (member, admin, owner), none, or something else
OrgRoles == {"member", "admin", "owner", "none", "Owner", "viewer"}
PlatformRoles == {"basic", "super_user"}

PermissionCalls ==
    [fn : {"get_permissions_for_role"}, org_role : OrgRoles, platform_role : PlatformRoles,
     result : {{}}, done : {FALSE}]

ResolvePermissions ==
    \E i \in DOMAIN calls :
        ApplyCall(i, get_permissions_for_role(calls[i].org_role, calls[i].platform_role))

----------------------------------------------------------------------------
(* Organization administration (identity/admin_router.py).  The caller is   *)
(* the authenticated user of the request; each request is handled and       *)
(* committed, or rejected and rolled back, in one step.                     *)

\* OrganizationRepository.get_member
get_member(org, uid) ==
    IF <<org, uid>> \in DOMAIN members THEN members[<<org, uid>>] ELSE NoRow

\* dependencies.require_org_admin: "ok", or the error it raises
require_org_admin(org, uid) ==
    IF get_member(org, uid) = NoRow THEN "NotOrgMember"
    ELSE IF get_member(org, uid).role \notin {"admin", "owner"} THEN "Forbidden"
    ELSE "ok"

\* an owner check that an admin passes as well
require_org_owner_or_admin(org, uid) == require_org_admin(org, uid)

\* dependencies.require_org_owner: "ok", or the error it raises
require_org_owner(org, uid) ==
    IF get_member(org, uid) = NoRow THEN "NotOrgMember"
    ELSE IF get_member(org, uid).role # "owner" THEN "Forbidden"
    ELSE "ok"

\* OrganizationRepository.add_member: the inserted row
add_member(org, uid, role) ==
    members @@ (<<org, uid>> :> [organization_id |-> org, user_id |-> uid, role |-> role])

\* OrganizationRepository.update_member_role
update_member_role(org, uid, role) == [members EXCEPT ![<<org, uid>>].role = role]

\* OrganizationRepository.remove_member
remove_member(org, uid) == [k \in DOMAIN members \ {<<org, uid>>} |-> members[k]]

\* the request is answered: its writes are committed with an "ok", discarded otherwise
OrgRespond(kind, result, written) ==
    /\ req[1].pc = "done"
    /\ req' = [req EXCEPT ![1] = Done([IdleReq EXCEPT !.kind = kind], result)]
    /\ members' = IF result = "ok" THEN written ELSE members
    /\ UNCHANGED <<now, ticks, nextId, lastId, users, sessions, codes, resets, audit, calls,
                   issued, rotations, grants, consecFails, answered>>

\* POST /users/invite: InviteUserRequest allows the roles member and admin; the
\* unique constraint uq_user_organization refuses a second row for a member
InviteUser(caller, org, email, role) ==
    LET user == get_by_email(Lower(email)) IN
    IF role \notin {"member", "admin"}
    THEN OrgRespond("invite", "ValidationError", members)
    ELSE IF require_org_admin(org, caller) # "ok"
    THEN OrgRespond("invite", require_org_admin(org, caller), members)
    ELSE IF user = NoRow
    THEN OrgRespond("invite", "UserNotFound", members)
    ELSE IF get_member(org, user.id) # NoRow
    THEN OrgRespond("invite", "ServerError", members)
    ELSE OrgRespond("invite", "ok", add_member(org, user.id, role))

\* PUT /users/{user_id}/role
ChangeUserRole(caller, org, target, role) ==
    LET member == get_member(org, target)
        check == IF role = "owner" \/ (member # NoRow /\ member.role = "owner")
                 THEN require_org_owner(org, caller)
                 ELSE require_org_admin(org, caller)
    IN
    IF check # "ok"
    THEN OrgRespond("change_role", check, members)
    ELSE IF member = NoRow
    THEN OrgRespond("change_role", "UserNotFound", members)
    ELSE OrgRespond("change_role", "ok", update_member_role(org, target, role))

\* DELETE /users/{user_id}
RemoveUser(caller, org, target) ==
    LET member == get_member(org, target) IN
    IF require_org_admin(org, caller) # "ok"
    THEN OrgRespond("remove", require_org_admin(org, caller), members)
    ELSE IF target = caller
    THEN OrgRespond("remove", "Forbidden", members)
    ELSE IF member # NoRow /\ member.role = "owner"
    THEN OrgRespond("remove", "Forbidden", members)
    ELSE IF member = NoRow
    THEN OrgRespond("remove", "UserNotFound", members)
    ELSE OrgRespond("remove", "ok", remove_member(org, target))

----------------------------------------------------------------------------
(* The clock *)

Tick(d) ==
    /\ ticks < MaxTicks
    /\ now' = now + d
    /\ ticks' = ticks + 1
    /\ UNCHANGED <<nextId, lastId, users, sessions, codes, resets, audit, members, calls, req, issued,
                   rotations, grants, consecFails, answered>>

----------------------------------------------------------------------------
(* The empty store *)

EmptyStore ==
    /\ now = 0
    /\ ticks = 0
    /\ nextId = 1
    /\ lastId = MaxIds
    /\ users = EmptyFn
    /\ sessions = EmptyFn
    /\ codes = EmptyFn
    /\ resets = EmptyFn
    /\ audit = {}
    /\ req = [r \in Reqs |-> IdleReq]
    /\ issued = {}
    /\ rotations = {}
    /\ grants = {}
    /\ consecFails = 0
    /\ answered = {}
    /\ members = EmptyFn

Init == EmptyStore /\ calls = <<>>

\* what a client may type
LoginEmails == {"alice@x.com", "Alice@X.com", "bob@x.com"}
Held(type) == {t \in issued : t.type = type}
Secrets == {users[id].mfa_secret : id \in DOMAIN users} \ {NULL}
\* the code of the moment, or the code of a minute ago
TotpInputs == {TotpCode(s, k) : s \in Secrets, k \in {now - 2, now}}
RecoveryInputs ==
    {RecoveryText(<<b, i>>, st) : b \in 1..lastId, i \in TryCodes, st \in RecoveryStyles}

----------------------------------------------------------------------------
(* Populated stores: states the empty store reaches (ReachesSignedIn,      *)
(* ReachesMfaPending below are checked under Spec)                         *)

AliceId == 1
AliceRefresh == create_refresh_token(AliceId, 0, 2)
AliceSession ==
    [user_id |-> AliceId, token_hash |-> hash_token(AliceRefresh),
     expires_at |-> Days(SESSION_DAYS), revoked_at |-> NULL,
     via |-> "login", mfa |-> FALSE]

\* alice registered and logged in once, at time 0
SignedIn(n) ==
    /\ now = 0
    /\ ticks = 0
    /\ nextId = 3
    /\ lastId = 2 + n
    /\ users = (AliceId :> NewUser(AliceId, "alice@x.com", hash_password("Secret123!")))
    /\ sessions = (2 :> AliceSession)
    /\ codes = EmptyFn
    /\ resets = EmptyFn
    /\ audit = {}
    /\ req = [r \in Reqs |->
                IF r = 1 THEN [IdleReq EXCEPT !.kind = "login", !.result = "ok", !.pwok = TRUE]
                ELSE IdleReq]
    /\ issued = {create_access_token(AliceId, 0), AliceRefresh}
    /\ rotations = {}
    /\ grants = {}
    /\ consecFails = 0
    /\ answered = {}
    /\ members = EmptyFn
    /\ calls = <<>>

\* alice then set up MFA (secret 3, recovery batch 4) and logged in again: MFA required
MfaPending(n) ==
    /\ now = 0
    /\ ticks = 0
    /\ nextId = 5
    /\ lastId = 4 + n
    /\ users = (AliceId :>
                  [NewUser(AliceId, "alice@x.com", hash_password("Secret123!"))
                     EXCEPT !.mfa_enabled = TRUE, !.mfa_secret = 3])
    /\ sessions = (2 :> AliceSession)
    /\ codes = create_codes(AliceId, 4)
    /\ resets = EmptyFn
    /\ audit = {}
    /\ req = [r \in Reqs |->
                IF r = 1 THEN [IdleReq EXCEPT !.kind = "login", !.result = "MFARequired",
                                              !.pwok = TRUE]
                ELSE IdleReq]
    /\ issued = {create_access_token(AliceId, 0), AliceRefresh, create_mfa_token(AliceId, 0)}
    /\ rotations = {}
    /\ grants = {}
    /\ consecFails = 0
    /\ answered = {}
    /\ members = EmptyFn
    /\ calls = <<>>

InitSignedIn == SignedIn(MaxNew)
InitMfaPending == MfaPending(MaxNew)

ReachesSignedIn == ~SignedIn(MaxIds - 2)
ReachesMfaPending == ~MfaPending(MaxIds - 4)

----------------------------------------------------------------------------
(* Specifications *)

\* Login requests handled one after another
NextLogin ==
    \/ \E e \in Emails, p \in Passwords : Register(e, p)
    \/ \E e \in LoginEmails, p \in Passwords : LoginStart(1, e, p)
    \/ LoginWrite(1)
    \/ GetDbCommit(1)
    \/ GetDbRollback(1)
    \/ Tick(Minutes(LOCKOUT_DURATION_MINUTES))

SpecLogin == Init /\ [][NextLogin]_vars

\* Login requests handled concurrently
NextLoginRace ==
    \/ \E e \in Emails : Register(e, "Secret123!")
    \/ \E r \in Reqs, e \in Emails, p \in Passwords : LoginStart(r, e, p)
    \/ \E r \in Reqs : LoginWrite(r)
    \/ \E r \in Reqs : GetDbCommit(r)
    \/ \E r \in Reqs : GetDbRollback(r)
    \/ Tick(Minutes(LOCKOUT_DURATION_MINUTES))

SpecLoginRace == Init /\ [][NextLoginRace]_vars

\* Refresh requests handled concurrently, with any token the client holds
NextRefresh ==
    \/ \E r \in Reqs, tok \in issued : RefreshStart(r, tok)
    \/ \E r \in Reqs : RefreshWrite(r)
    \/ \E r \in Reqs : GetDbCommit(r)
    \/ Tick(Days(REFRESH_TOKEN_DAYS))

SpecRefresh == InitSignedIn /\ [][NextRefresh]_vars

\* password changes, logins and refreshes handled one after another
NextPassword ==
    \/ \E tok \in Held("access"), p \in Passwords, n \in Passwords :
          ChangePasswordStart(1, tok, p, n)
    \/ ChangePasswordWrite(1)
    \/ \E e \in Emails, p \in Passwords : LoginStart(1, e, p)
    \/ LoginWrite(1)
    \/ \E tok \in Held("refresh") : RefreshStart(1, tok)
    \/ RefreshWrite(1)
    \/ GetDbCommit(1)
    \/ GetDbRollback(1)
    \/ Tick(Minutes(ACCESS_TOKEN_MINUTES))

SpecPassword == InitSignedIn /\ [][NextPassword]_vars

\* recovery-code logins handled concurrently, MFA being disabled meanwhile
NextRecovery ==
    \/ \E r \in Reqs, tok \in Held("mfa_pending"), text \in RecoveryInputs :
          RecoveryStart(r, tok, text)
    \/ \E r \in Reqs : RecoveryWrite(r)
    \/ \E tok \in Held("access"), p \in Passwords : DisableMfaStart(2, tok, p)
    \/ DisableMfaWrite(2)
    \/ \E r \in Reqs : GetDbCommit(r)
    \/ \E r \in Reqs : GetDbRollback(r)
    \/ Tick(Minutes(MFA_TOKEN_MINUTES))

SpecRecovery == InitMfaPending /\ [][NextRecovery]_vars

\* MFA set up, completed and disabled concurrently
NextMfaSetup ==
    \/ \E r \in Reqs, tok \in Held("access") : SetupMfaStart(r, tok)
    \/ \E r \in Reqs : SetupMfaWrite(r)
    \/ \E r \in Reqs, tok \in Held("access"), code \in TotpInputs :
          CompleteMfaSetupStart(r, tok, code)
    \/ \E r \in Reqs : CompleteMfaSetupWrite(r)
    \/ \E r \in Reqs, tok \in Held("access"), p \in Passwords : DisableMfaStart(r, tok, p)
    \/ \E r \in Reqs : DisableMfaWrite(r)
    \/ \E r \in Reqs : GetDbCommit(r)

SpecMfaSetup == InitSignedIn /\ [][NextMfaSetup]_vars

\* recovery codes regenerated concurrently, recovery-code logins in between
NextRegenerate ==
    \/ \E r \in Reqs, tok \in Held("access") : RegenerateRecoveryCodesStart(r, tok)
    \/ \E r \in Reqs : RegenerateRecoveryCodesSelect(r)
    \/ \E r \in Reqs : RegenerateRecoveryCodesFlush(r)
    \/ \E tok \in Held("mfa_pending"), text \in RecoveryInputs : RecoveryStart(1, tok, text)
    \/ RecoveryWrite(1)
    \/ \E r \in Reqs : GetDbCommit(r)
    \/ \E r \in Reqs : GetDbRollback(r)
    \/ Tick(Minutes(MFA_TOKEN_MINUTES))

SpecRegenerate == InitMfaPending /\ [][NextRegenerate]_vars

\* password resets, recovery logins and refreshes handled one after another, any of
\* them abandoned midway
NextAtomic ==
    \/ \E e \in Emails : RequestPasswordReset(1, e)
    \/ \E tok \in Held("reset"), p \in Passwords : ConfirmPasswordResetStart(1, tok, p)
    \/ ConfirmPasswordResetWrite(1)
    \/ \E tok \in Held("mfa_pending"), text \in RecoveryInputs : RecoveryStart(1, tok, text)
    \/ RecoveryWrite(1)
    \/ \E tok \in Held("refresh") : RefreshStart(1, tok)
    \/ RefreshWrite(1)
    \/ GetDbCommit(1)
    \/ Abandon(1)
    \/ Tick(Minutes(MFA_TOKEN_MINUTES))

SpecAtomic == InitMfaPending /\ [][NextAtomic]_vars

\* password resets, logins and refreshes handled one after another
ResetInputs == Held("reset") \cup {create_reset_token(AliceId, 0, 0)}

NextReset ==
    \/ \E e \in LoginEmails : RequestPasswordReset(1, e)
    \/ \E tok \in ResetInputs, p \in Passwords : ConfirmPasswordResetStart(1, tok, p)
    \/ ConfirmPasswordResetWrite(1)
    \/ \E e \in Emails, p \in Passwords : LoginStart(1, e, p)
    \/ LoginWrite(1)
    \/ \E tok \in Held("refresh") : RefreshStart(1, tok)
    \/ RefreshWrite(1)
    \/ GetDbCommit(1)
    \/ GetDbRollback(1)
    \/ Tick(Minutes(60 * RESET_TOKEN_HOURS))

SpecReset == InitSignedIn /\ [][NextReset]_vars

\* MFA logins handled one after another, while the mfa_pending token ages
NextMfaLogin ==
    \/ \E e \in Emails, p \in Passwords : LoginStart(1, e, p)
    \/ LoginWrite(1)
    \/ \E tok \in Held("mfa_pending"), code \in TotpInputs : VerifyMfaLogin(1, tok, code)
    \/ GetDbCommit(1)
    \/ GetDbRollback(1)
    \/ Tick(Minutes(MFA_TOKEN_MINUTES) \div 2)

SpecMfaLogin == InitMfaPending /\ [][NextMfaLogin]_vars

\* the MFA settings of a signed-in account changed one request after another, MFA
\* logins in between
NextMfaManage ==
    \/ \E tok \in Held("access"), p \in Passwords : DisableMfaStart(1, tok, p)
    \/ DisableMfaWrite(1)
    \/ \E tok \in Held("access") : SetupMfaStart(1, tok)
    \/ SetupMfaWrite(1)
    \/ \E tok \in Held("access"), code \in TotpInputs : CompleteMfaSetupStart(1, tok, code)
    \/ CompleteMfaSetupWrite(1)
    \/ \E tok \in Held("access") : RegenerateRecoveryCodesStart(1, tok)
    \/ RegenerateRecoveryCodesSelect(1)
    \/ RegenerateRecoveryCodesFlush(1)
    \/ \E tok \in Held("mfa_pending"), code \in TotpInputs : VerifyMfaLogin(1, tok, code)
    \/ GetDbCommit(1)
    \/ Tick(Minutes(1))

SpecMfaManage == InitMfaPending /\ [][NextMfaManage]_vars

\* get_permissions_for_role applied to drawn role pairs
InitPermissions == EmptyStore /\ calls \in [1..MaxCalls -> PermissionCalls]

NextPermissions == ResolvePermissions

SpecPermissions == InitPermissions /\ [][NextPermissions]_vars

\* the token validators applied to drawn tokens and times
InitTokens == EmptyStore /\ calls \in [1..MaxCalls -> TokenCalls]

NextTokens == ValidateToken

SpecTokens == InitTokens /\ [][NextTokens]_vars

\* verify_totp applied to drawn codes and times
InitTotp == EmptyStore /\ calls \in [1..MaxCalls -> TotpCalls]

NextTotp == VerifyTotp

SpecTotp == InitTotp /\ [][NextTotp]_vars

\* the recovery-code functions applied to drawn codes
InitRecoveryCodes == EmptyStore /\ calls \in [1..MaxCalls -> RecoveryCalls]

NextRecoveryCodes == VerifyRecoveryCode

SpecRecoveryCodes == InitRecoveryCodes /\ [][NextRecoveryCodes]_vars

\* MFA and recovery logins with the pending tokens at hand, one after another
NextMfaReuse ==
    \/ \E tok \in Held("mfa_pending"), code \in TotpInputs : VerifyMfaLogin(1, tok, code)
    \/ \E tok \in Held("mfa_pending"), text \in RecoveryInputs : RecoveryStart(1, tok, text)
    \/ RecoveryWrite(1)
    \/ GetDbCommit(1)
    \/ Tick(Minutes(MFA_TOKEN_MINUTES) \div 2)

SpecMfaReuse == InitMfaPending /\ [][NextMfaReuse]_vars

\* three registered users and two organizations, each just created by its owner;
\* the members of organization 1 are administered one request after another,
\* organization 2 is another tenant whose owner is a stranger to organization 1
OrgUsers == {1, 2, 3}
AllOrgs == {1, 2}
Orgs == {1}
OrgEmails == {"alice@x.com", "bob@x.com", "carol@x.com", "dave@x.com"}
RoleInputs == {"member", "admin", "owner"}

InitOrgs ==
    /\ now = 0
    /\ ticks = 0
    /\ nextId = 4
    /\ lastId = 3 + MaxNew
    /\ users = (1 :> NewUser(1, "alice@x.com", hash_password("Secret123!"))
                @@ 2 :> NewUser(2, "bob@x.com", hash_password("Secret123!"))
                @@ 3 :> NewUser(3, "carol@x.com", hash_password("Secret123!")))
    /\ sessions = EmptyFn
    /\ codes = EmptyFn
    /\ resets = EmptyFn
    /\ audit = {}
    /\ req = [r \in Reqs |-> IdleReq]
    /\ issued = {}
    /\ rotations = {}
    /\ grants = {}
    /\ consecFails = 0
    /\ answered = {}
    /\ calls = <<>>
    /\ members = (<<1, 1>> :> [organization_id |-> 1, user_id |-> 1, role |-> "owner"]
                  @@ <<2, 2>> :> [organization_id |-> 2, user_id |-> 2, role |-> "owner"])

NextOrgs ==
    \/ \E caller \in OrgUsers, org \in Orgs, e \in OrgEmails, role \in RoleInputs :
          InviteUser(caller, org, e, role)
    \/ \E caller \in OrgUsers, org \in Orgs, target \in OrgUsers, role \in RoleInputs :
          ChangeUserRole(caller, org, target, role)
    \/ \E caller \in OrgUsers, org \in Orgs, target \in OrgUsers :
          RemoveUser(caller, org, target)

SpecOrgs == InitOrgs /\ [][NextOrgs]_vars

\* login, MFA setup, MFA login, recovery login and refresh, one after another
Next ==
    \/ \E e \in Emails : Register(e, "Secret123!")
    \/ \E e \in Emails, p \in Passwords : LoginStart(1, e, p)
    \/ LoginWrite(1)
    \/ \E tok \in Held("refresh") : RefreshStart(1, tok)
    \/ RefreshWrite(1)
    \/ \E tok \in Held("mfa_pending"), code \in TotpInputs : VerifyMfaLogin(1, tok, code)
    \/ \E tok \in Held("mfa_pending"), text \in RecoveryInputs : RecoveryStart(1, tok, text)
    \/ RecoveryWrite(1)
    \/ \E tok \in Held("access") : SetupMfaStart(1, tok)
    \/ SetupMfaWrite(1)
    \/ \E tok \in Held("access"), code \in TotpInputs : CompleteMfaSetupStart(1, tok, code)
    \/ CompleteMfaSetupWrite(1)
    \/ GetDbCommit(1)
    \/ GetDbRollback(1)

Spec == Init /\ [][Next]_vars

----------------------------------------------------------------------------
(* Claims *)

Finished(r, kind) == req[r].pc = "done" /\ req[r].kind = kind
Quiet == \A r \in Reqs : req[r].pc = "done"
Unrevoked == {s \in DOMAIN sessions : sessions[s].revoked_at = NULL}

\* C1: after five consecutive wrong-password Login responses for the account,
\* its stored failed_login_attempts is 5 and locked_until is set (so the sixth
\* Login is refused as locked).  Checked under SpecLogin.
C1_LockedAfterFiveFailures ==
    consecFails = MAX_FAILED_ATTEMPTS =>
        \A id \in DOMAIN users :
            /\ users[id].failed_login_attempts = MAX_FAILED_ATTEMPTS
            /\ users[id].locked_until # NULL

\* C2 as claimed: a Refresh that starts after a Refresh of the same token
\* succeeded fails with InvalidToken, and a successful Refresh returns a refresh
\* token different from the one presented.  Checked under SpecRefresh.
C2_RefreshedTokenIsInvalid ==
    /\ \A r \in Reqs : (Finished(r, "refresh") /\ req[r].late) => req[r].result = "InvalidToken"
    /\ \A p \in rotations : p[1] # p[2]

\* C2 as amended: such a Refresh fails and issues nothing, with InvalidToken
\* while the token is unexpired and with TokenExpired once its exp has passed;
\* the refresh token a successful Refresh returns differs from the one presented.
C2_RefreshedTokenIsRefused ==
    /\ \A r \in Reqs :
          (Finished(r, "refresh") /\ req[r].late) =>
              req[r].result = (IF req[r].stale THEN "TokenExpired" ELSE "InvalidToken")
    /\ \A p \in rotations : p[1] # p[2]

C2_Witness ==
    \E r \in Reqs : Finished(r, "refresh") /\ req[r].late /\ req[r].result = "InvalidToken"

\* C3: once a ChangePassword has succeeded the account has no unrevoked
\* session (every refresh token issued before the change is dead).  Checked
\* under SpecPassword.
C3_ChangePasswordRevokesSessions ==
    \A r \in Reqs :
        (Finished(r, "change_password") /\ req[r].result = "ok") => Unrevoked = {}

\* the Login half of C4: a Login that finds mfa_enabled set creates no session
\* and hands out nothing but, after a correct password, one mfa_pending token
C4_LoginIssuesOnlyMfaToken ==
    \A r \in Reqs :
        (req[r].kind = "login" /\ req[r].pc = "end" /\ req[r].user.mfa_enabled) =>
            /\ DOMAIN req[r].newSess = {}
            /\ req[r].error # ""
            /\ \A t \in req[r].out : t.type = "mfa_pending"
            /\ req[r].pwok => (req[r].error = "MFARequired" /\ Cardinality(req[r].out) = 1)

\* C4 as claimed: Login of an MFA-enabled account issues only an mfa_pending
\* token, and every session of an account whose mfa_enabled is set was created
\* by the MFA login, the recovery login or a Refresh.  Checked under Spec.
C4_MfaAccountSessionsNeedMfa ==
    /\ C4_LoginIssuesOnlyMfaToken
    /\ \A s \in DOMAIN sessions :
          users[sessions[s].user_id].mfa_enabled =>
              sessions[s].via \in {"mfa", "recovery", "refresh"}

\* C4 as amended: Login of an MFA-enabled account issues only an mfa_pending
\* token, and every session created by a request that found mfa_enabled set was
\* created by the MFA login, the recovery login or a Refresh (sessions a Login
\* created before MFA was enabled stay).
C4_SessionsCreatedUnderMfaNeedMfa ==
    /\ C4_LoginIssuesOnlyMfaToken
    /\ \A s \in DOMAIN sessions :
          sessions[s].mfa => sessions[s].via \in {"mfa", "recovery", "refresh"}

C4_Witness ==
    /\ \E r \in Reqs : Finished(r, "login") /\ req[r].result = "MFARequired"
    /\ \E s \in DOMAIN sessions : sessions[s].mfa /\ sessions[s].via = "mfa"

C6_RecoveryCodeSingleUse ==
    /\ \A r \in Reqs : (Finished(r, "recovery") /\ req[r].late) => req[r].result # "ok"
    /\ {c \in DOMAIN codes : codes[c].used_at # NULL} = {g[1] : g \in grants} \cap DOMAIN codes

C6_Witness ==
    /\ \E r \in Reqs :
          Finished(r, "recovery") /\ req[r].late /\ req[r].result = "InvalidMFACode"
    /\ \E c \in DOMAIN codes : codes[c].used_at # NULL

\* C7: of the Refresh requests that present one token, at most one succeeds.
\* Checked under SpecRefresh.
C7_OneRefreshPerToken ==
    \A p \in rotations, q \in rotations : p[1] = q[1] => p = q

\* C8: when no Login is in flight, the stored failed_login_attempts is the
\* number of wrong-password Logins answered since the last password-correct
\* one, and locked_until is set once that number reaches 5.  Checked under
\* SpecLoginRace.
C8_FailuresAreCounted ==
    (Quiet /\ consecFails < MaxFails) =>
        \A id \in DOMAIN users :
            /\ users[id].failed_login_attempts = consecFails
            /\ consecFails >= MAX_FAILED_ATTEMPTS => users[id].locked_until # NULL

\* C9: a recovery code pays for at most one recovery login.  Checked under
\* SpecRecovery.
C9_OneLoginPerRecoveryCode ==
    \A g \in grants, h \in grants : g[1] = h[1] => g = h

\* C10: an account with mfa_enabled set has an mfa_secret.  Checked under
\* SpecMfaSetup.
C10_EnabledHasSecret ==
    \A id \in DOMAIN users : users[id].mfa_enabled => users[id].mfa_secret # NULL

\* C11: the commit of a successful ConfirmPasswordReset leaves the account with
\* the new password, failed_login_attempts 0, locked_until null and no
\* unrevoked session.  Checked under SpecReset.
C11_ResetRevokesEverything ==
    [][\A r \in Reqs :
          (req[r].kind = "confirm_reset" /\ req[r].pc = "end"
             /\ req'[r].pc = "done" /\ req'[r].result = "ok") =>
              LET uid == req[r].user.id IN
              /\ verify_password(req[r].arg, users'[uid].password_hash)
              /\ users'[uid].failed_login_attempts = 0
              /\ users'[uid].locked_until = NULL
              /\ \A s \in DOMAIN sessions' :
                    sessions'[s].user_id = uid => sessions'[s].revoked_at # NULL]_vars

C11_Witness ==
    /\ \E k \in DOMAIN resets : resets[k].used_at # NULL
    /\ sessions[2].revoked_at # NULL
    /\ Finished(1, "refresh") /\ req[1].result = "InvalidToken"

\* C12: a ConfirmPasswordReset that presents a token an earlier confirm
\* succeeded with is answered InvalidToken and changes no user, session or
\* token row.  Checked under SpecReset.
C12_ResetTokenSingleUse ==
    [][\A r \in Reqs :
          (req[r] # req'[r] /\ req'[r].pc = "done"
             /\ req'[r].kind = "confirm_reset" /\ req'[r].late) =>
              /\ req'[r].result = "InvalidToken"
              /\ UNCHANGED <<users, sessions, resets>>]_vars

C12_Witness ==
    /\ Finished(1, "confirm_reset") /\ req[1].late /\ req[1].result = "InvalidToken"
    /\ Cardinality({a \in answered : a[1] = "confirm_reset" /\ a[3] = "ok"}) = 1

\* C13: every Login whose password did not verify is answered
\* InvalidCredentials, whether or not an account with that e-mail exists and
\* however many failures came before.  Checked under SpecLogin.
C13_NoUserEnumeration ==
    \A r \in Reqs :
        (Finished(r, "login") /\ ~req[r].pwok) => req[r].result = "InvalidCredentials"

C13_Witness ==
    /\ consecFails = MaxFails
    /\ Finished(1, "login") /\ ~req[1].pwok /\ req[1].result = "InvalidCredentials"

\* C14: a Refresh is answered TokenExpired only when the exp of the presented
\* token has passed (a token of the wrong type is answered InvalidToken).
\* Checked under SpecRefresh.
C14_RefreshClassifiesFailures ==
    \A r \in Reqs :
        (Finished(r, "refresh") /\ req[r].result = "TokenExpired") => req[r].stale

\* C15: an MFA login answered InvalidMFACode changes no stored row and hands
\* out nothing, and an MFA login with a token that was answered InvalidMFACode
\* before, presented unexpired with a correct code, is answered with tokens.
\* Checked under SpecMfaLogin.
C15_FailedMfaKeepsTokenUsable ==
    [][\A r \in Reqs :
          (req[r] # req'[r] /\ req'[r].pc = "done" /\ req'[r].kind = "mfa") =>
              /\ req'[r].result = "InvalidMFACode" =>
                    UNCHANGED <<users, sessions, codes, resets, issued>>
              /\ (req'[r].late /\ ~req'[r].stale /\ req'[r].pwok) =>
                    req'[r].result = "ok"]_vars

C15_Witness ==
    /\ now > 0
    /\ Finished(1, "mfa") /\ req[1].late /\ req[1].result = "ok"
    /\ \E s \in DOMAIN sessions : sessions[s].via = "mfa"

\* C16: an account holds at most ten recovery-code records, all of them minted by one
\* enable/regenerate event, whatever the interleaving of concurrent regenerate requests
C16_AtMostTenCodesOfOneBatch ==
    \A u \in DOMAIN users :
        LET mine == {c \in DOMAIN codes : codes[c].user_id = u} IN
        /\ Cardinality(mine) <= RECOVERY_CODE_COUNT
        /\ \A c, d \in mine : c[1] = d[1]

\* C17: every step of the persisted tables shows a request's mutations together or
\* not at all: a reset token becomes used only with every session of its account
\* revoked, and a password changes only with a reset token becoming used; a
\* recovery code becomes used only with the session it paid for, and such a session
\* appears only with a code becoming used; a session is revoked only with its
\* successor or with a reset; a request that fails or is abandoned changes nothing
C17_ResetUsed(k) == resets[k].used_at = NULL /\ resets'[k].used_at # NULL

C17_CodeUsed(c) ==
    c \in DOMAIN codes' /\ codes[c].used_at = NULL /\ codes'[c].used_at # NULL

C17_NewSessions(u, via) ==
    {s \in DOMAIN sessions' \ DOMAIN sessions :
        sessions'[s].user_id = u /\ sessions'[s].via = via}

C17_Step ==
    /\ \A k \in DOMAIN resets :
          C17_ResetUsed(k) =>
             \A s \in DOMAIN sessions' :
                sessions'[s].user_id = resets[k].user_id => sessions'[s].revoked_at # NULL
    /\ \A u \in DOMAIN users :
          users'[u].password_hash # users[u].password_hash =>
             \E k \in DOMAIN resets : resets[k].user_id = u /\ C17_ResetUsed(k)
    /\ \A c \in DOMAIN codes :
          C17_CodeUsed(c) => C17_NewSessions(codes[c].user_id, "recovery") # {}
    /\ \A u \in DOMAIN users :
          C17_NewSessions(u, "recovery") # {} =>
             \E c \in DOMAIN codes : codes[c].user_id = u /\ C17_CodeUsed(c)
    /\ \A s \in DOMAIN sessions :
          sessions[s].revoked_at = NULL /\ sessions'[s].revoked_at # NULL =>
             \/ C17_NewSessions(sessions[s].user_id, "refresh") # {}
             \/ \E k \in DOMAIN resets :
                   resets[k].user_id = sessions[s].user_id /\ C17_ResetUsed(k)
    /\ \A r \in Reqs :
          req[r].pc # "done" /\ req'[r].pc = "done" /\ req'[r].result # "ok" =>
             UNCHANGED <<users, sessions, codes, resets>>

RECURSIVE C19_ChainRoot(_)
C19_ChainRoot(tok) ==
    IF \E p \in rotations : p[2] = tok
    THEN C19_ChainRoot((CHOOSE p \in rotations : p[2] = tok)[1])
    ELSE tok

C19_OneUnrevokedSessionPerChain ==
    \A s1, s2 \in Unrevoked :
        C19_ChainRoot(sessions[s1].token_hash[2]) = C19_ChainRoot(sessions[s2].token_hash[2])
            => s1 = s2

\* C20: every login attempt, successful or failed, is followed by a security event:
\* once a login request has been answered, the audit table holds an event
C20_LoginEmitsSecurityEvent ==
    \A r \in Reqs : Finished(r, "login") => audit # {}

\* C21: DisableMFA with a wrong password is answered InvalidCredentials and leaves
\* the account and its recovery codes as they were; with the right password it goes
\* on, and its commit leaves the account with mfa_enabled false, mfa_secret null
\* and no recovery code.  Checked under SpecMfaManage.
C21_CodesOf(u, table) == {c \in DOMAIN table : table[c].user_id = u}

C21_Step ==
    /\ \A tok \in Held("access"), p \in Passwords :
          (DisableMfaStart(1, tok, p) /\ get_current_user(tok) = "ok") =>
             IF get_by_id(tok.sub).password_hash = hash_password(p)
             THEN req'[1].pc = "write"
             ELSE /\ req'[1].pc = "done"
                  /\ req'[1].result = "InvalidCredentials"
                  /\ UNCHANGED <<users, codes>>
    /\ (req[1].kind = "disable_mfa" /\ req[1].pc = "end" /\ req'[1].pc = "done") =>
          /\ req'[1].result = "ok"
          /\ ~users'[req[1].user.id].mfa_enabled
          /\ users'[req[1].user.id].mfa_secret = NULL
          /\ C21_CodesOf(req[1].user.id, codes') = {}

C21_DisableMfaNeedsPassword == [][C21_Step]_vars

C21_Witness ==
    /\ Finished(1, "disable_mfa")
    /\ req[1].result = "ok"
    /\ \E u \in DOMAIN users : ~users[u].mfa_enabled /\ C21_CodesOf(u, codes) = {}

\* C22: permission resolution grows with the rank of the org role (member, admin,
\* owner) for a basic user; a super_user has every SUPER_USER permission and at
\* least what the same org role has as basic, whatever the org role; a basic user
\* has no platform permission
C22_Rank(org_role) ==
    IF org_role = "member" THEN 1 ELSE IF org_role = "admin" THEN 2
    ELSE IF org_role = "owner" THEN 3 ELSE 0

C22_PermissionsAreMonotonic ==
    \A i \in Applied, j \in Applied :
        /\ (/\ calls[i].platform_role = "basic" /\ calls[j].platform_role = "basic"
            /\ C22_Rank(calls[i].org_role) > 0
            /\ C22_Rank(calls[i].org_role) <= C22_Rank(calls[j].org_role))
              => calls[i].result \subseteq calls[j].result
        /\ calls[i].platform_role = "super_user"
              => SUPER_USER_PERMISSIONS \subseteq calls[i].result
        /\ (/\ calls[i].org_role = calls[j].org_role
            /\ calls[i].platform_role = "basic" /\ calls[j].platform_role = "super_user")
              => calls[i].result \subseteq calls[j].result
        /\ calls[i].platform_role = "basic"
              => \A perm \in calls[i].result : perm[1] # "platform"

C22_Witness ==
    \E i \in Applied, j \in Applied :
        /\ calls[i].org_role = "member" /\ calls[i].platform_role = "basic"
        /\ calls[j].org_role = "member" /\ calls[j].platform_role = "super_user"
        /\ calls[i].result # {} /\ calls[j].result # calls[i].result

\* C23: each validator accepts a token that has not expired iff the token's type
\* claim is the validator's own kind: access for validate_access_token, refresh for
\* validate_refresh_token, mfa_pending for validate_mfa_token
C23_KindOf(fn) ==
    CASE fn = "validate_access_token" -> "access"
      [] fn = "validate_refresh_token" -> "refresh"
      [] fn = "validate_mfa_token" -> "mfa_pending"

C23_ValidatorsAcceptOwnKindOnly ==
    \A i \in Applied :
        calls[i].t < calls[i].tok.exp =>
            (calls[i].result = "ok" <=> calls[i].tok.type = C23_KindOf(calls[i].fn))

C23_Witness ==
    \E i \in Applied, j \in Applied :
        /\ calls[i].fn = "validate_access_token" /\ calls[i].tok.type = "mfa_pending"
        /\ calls[i].t < calls[i].tok.exp /\ calls[i].result # "ok"
        /\ calls[j].fn = "validate_mfa_token" /\ calls[j].tok = calls[i].tok
        /\ calls[j].t = calls[i].t /\ calls[j].result = "ok"

\* C24: at time step s verify_totp accepts exactly the six-digit codes of the
\* secret for the steps s-1, s and s+1: a code two or more steps away (such as one
\* of ten minutes earlier), a code of another secret, and an input that is not six
\* digits are rejected
C24_TotpWindowIsOneStep ==
    \A i \in Applied :
        calls[i].result <=>
            /\ calls[i].code.digits = 6
            /\ calls[i].code.secret = calls[i].secret
            /\ calls[i].code.step >= calls[i].t - 1
            /\ calls[i].code.step <= calls[i].t + 1

C24_Witness ==
    \E i \in Applied, j \in Applied :
        /\ calls[i].code.step = calls[i].t + 1 /\ calls[i].result
        /\ calls[j].code.step = calls[j].t - Minutes(10) /\ ~calls[j].result

\* C25: a recovery code hashes as its spelling without dashes and in upper case
\* does, so "ABCD-1234", "abcd-1234" and "abcd1234" have one hash; and
\* verify_recovery_code(c, hash_recovery_code(c')) holds iff c and c' are the same
\* once their dashes are removed and their letters upper-cased
C25_Plain(c) ==
    [hex |-> c.hex,
     style |-> IF c.style \in {"XXXX-XXXX", "xxxx-xxxx", "XXXXXXXX", "xxxxxxxx"}
               THEN "XXXXXXXX" ELSE "XXXX XXXX"]

C25_HashIgnoresCaseAndDashes ==
    \A i \in Applied :
        /\ \A j \in Applied :
              calls[j].code = C25_Plain(calls[i].code)
                 => calls[i].result.hash = calls[j].result.hash
        /\ calls[i].result.ok <=> C25_Plain(calls[i].code) = C25_Plain(calls[i].stored)

C25_Witness ==
    \E i \in Applied, j \in Applied :
        /\ calls[i].code = RecoveryText(1, "xxxx-xxxx")
        /\ calls[j].code = RecoveryText(1, "XXXXXXXX")
        /\ calls[i].stored = RecoveryText(1, "XXXX-XXXX")
        /\ calls[i].result.ok
        /\ calls[i].result.hash = calls[j].result.hash

\* C28: an mfa_pending token with which an MFA or recovery login has succeeded is
\* accepted again before it expires: with a TOTP code that verifies, or a recovery
\* code that is still unused, the request is not refused, and its commit adds one
\* more session, with a refresh token of its own.  Checked under SpecMfaReuse.
C28_Used(tok) == \E k \in {"mfa", "recovery"} : <<k, tok, "ok">> \in answered

C28_Step ==
    /\ \A tok \in Held("mfa_pending") :
          (C28_Used(tok) /\ now < tok.exp /\ get_by_id(tok.sub) # NoRow) =>
             /\ \A code \in TotpInputs :
                   (/\ VerifyMfaLogin(1, tok, code)
                    /\ code.secret = get_by_id(tok.sub).mfa_secret
                    /\ code.step = now)
                      => req'[1].pc = "end" /\ req'[1].error = ""
             /\ \A text \in RecoveryInputs :
                   (/\ RecoveryStart(1, tok, text)
                    /\ \E c \in DOMAIN codes :
                          /\ codes[c].user_id = tok.sub /\ codes[c].used_at = NULL
                          /\ c = text.hex)
                      => req'[1].pc = "write"
    /\ (/\ req[1].kind \in {"mfa", "recovery"} /\ req[1].pc = "end"
        /\ req'[1].pc = "done" /\ C28_Used(req[1].tok))
          => /\ req'[1].result = "ok"
             /\ \E s \in DOMAIN sessions' \ DOMAIN sessions :
                   /\ DOMAIN sessions' = DOMAIN sessions \cup {s}
                   /\ sessions'[s].revoked_at = NULL
                   /\ \A o \in DOMAIN sessions :
                         sessions'[o] = sessions[o]
                         /\ sessions[o].token_hash # sessions'[s].token_hash

C28_MfaTokenIsReusable == [][C28_Step]_vars

C28_Witness ==
    \E tok \in Held("mfa_pending") :
        /\ <<"mfa", tok, "ok">> \in answered
        /\ <<"recovery", tok, "ok">> \in answered
        /\ Cardinality({s \in Unrevoked : sessions[s].via \in {"mfa", "recovery"}}) = 2

\* C29: SetupMFA never changes the secret that login-time MFA verification uses
\* for an account whose MFA is enabled: while mfa_enabled stays true, the stored
\* mfa_secret stays the one CompleteMFASetup verified.  Checked under SpecMfaManage.
C29_EnabledSecretIsTheVerifiedOne ==
    [][\A u \in DOMAIN users :
          (users[u].mfa_enabled /\ users'[u].mfa_enabled)
             => users'[u].mfa_secret = users[u].mfa_secret]_vars

\* C30: a request of a caller who is not an owner of the organization (a member,
\* an admin, or no member of it) never makes a membership of that organization
\* owner, never makes an owner something else, and never removes an owner; the
\* owners of another organization are not touched by the request at all.
\* Checked under SpecOrgs.
C30_Owners(table, org) == {k \in DOMAIN table : k[1] = org /\ table[k].role = "owner"}

C30_ByCaller(caller, org) ==
    \/ \E e \in OrgEmails, role \in RoleInputs : InviteUser(caller, org, e, role)
    \/ \E target \in OrgUsers, role \in RoleInputs : ChangeUserRole(caller, org, target, role)
    \/ \E target \in OrgUsers : RemoveUser(caller, org, target)

C30_OnlyOwnersChangeOwners ==
    [][\A caller \in OrgUsers, org \in Orgs :
          C30_ByCaller(caller, org)
             => \A o \in AllOrgs :
                   C30_Owners(members, o) # C30_Owners(members', o)
                      => o = org /\ <<org, caller>> \in C30_Owners(members, org)]_vars

C30_Witness ==
    /\ C30_Owners(members, 1) = {<<1, 3>>}
    /\ <<1, 1>> \in DOMAIN members /\ members[<<1, 1>>].role = "admin"
    /\ req[1].kind = "change_role" /\ req[1].result = "Forbidden"

====
